---- MODULE Spec2Model ----
(***************************************************************************)
(* FSK decoder (src/index.js): the sample pipeline of SignalProcessor and  *)
(* of the stand-alone functions (readCU8File .. extractUnique64Bit-        *)
(* Sequences), FrameParser, the MQTT glue of processFile, and the batch    *)
(* loop of processDirectory.                                               *)
(*                                                                         *)
(* Conventions.  JavaScript arrays and strings are 0-based; a TLA+         *)
(* sequence holds element i of the array at position i+1, and every index  *)
(* kept in the state (interval bounds, read offsets) is the JavaScript     *)
(* index.  A string is the sequence of its characters.  Angles are         *)
(* integers counting eighths of a turn (PI = 4), which is exact for the    *)
(* samples the captures below use (on the axes and the diagonals).         *)
(***************************************************************************)
EXTENDS Integers, Sequences, FiniteSets, TLC

VARIABLES
  op,            \* the operation that ran last ("init" before any)
  flags,         \* findIntervals: the activity mask
  minLen,        \* minimum run length
  intervals,     \* findIntervals / findSignalIntervals: the result
  buffer,        \* the bytes fs.readFileSync returned
  iq,            \* readIq / readCU8File: the result {I, Q}
  fields,        \* the field values the frame was built from
  frame,         \* FrameParser.parse: the bit string
  parsed,        \* FrameParser.parse: the result
  phases,        \* computeDiffs: the input phases
  diffs,         \* computeDiffs: the result; decodeBits: the input
  interval,      \* decodeBits: [start, end]
  samplesPerBit, \* decodeBits / extractSequences
  threshold,     \* extractSequences
  decoded,       \* decodeBits / decodeFSK: [bits, reads]
  spOut,         \* SignalProcessor.extractSequences: [ran, intervals, sequences]
  fnOut,         \* extractUnique64BitSequences: [ran, intervals, sequences]
  connected,     \* mqttClient.client.connected
  listeners,     \* once('connect') callbacks registered by MqttClient.send
  published,     \* client.publish calls, in order
  discovered,    \* the module-level Set of device ids
  log,           \* per processed frame: what processFile did with it
  dir,           \* processDirectory: the listing of the directory
  results,       \* processDirectory: results, file name -> sequences
  outcome        \* processDirectory / the watcher: how the run ended

vars == <<op, flags, minLen, intervals, buffer, iq, fields, frame, parsed, phases, diffs,
          interval, samplesPerBit, threshold, decoded, spOut, fnOut, connected,
          listeners, published, discovered, log, dir, results, outcome>>

----------------------------------------------------------------------------
(* Program constants, src/index.js:6-18                                    *)

POWER_THRESHOLD == 5
PREAMBLE_LENGTH == 24
SYNC_WORD_LENGTH == 16
DEVICE_ID_LENGTH == 20
COMMAND_LENGTH == 3
BATTERY_LENGTH == 1

\* '0010110111010100'
SYNC_WORD ==
  <<"0","0","1","0","1","1","0","1","1","1","0","1","0","1","0","0">>

\* Math.PI in eighths of a turn
PI == 4

\* JavaScript's null for findIntervals' start (no array index is negative)
Null == -1

\* The value a variable holds in a specification that does not use it
Unused == <<>>

----------------------------------------------------------------------------
(* Helpers for JavaScript's array and number operations                    *)

Min(a, b) == IF a < b THEN a ELSE b

\* Math.floor(a / b) for a >= 0, b > 0
Floor(a, b) == a \div b

\* String/Array.prototype.slice(a, b) for 0 <= a: clamps b to the length
Slice(s, a, b) == SubSeq(s, a + 1, Min(b, Len(s)))

\* s[i] for a 0-based index i of a plain array or string
At(s, i) == s[i + 1]

\* e, evaluated after x.  TLC evaluates a definition when its value is first
\* needed; without this a loop's chain of pending states nests as deep as the
\* loop is long.
After(x, e) == IF x = x THEN e ELSE e

RECURSIVE SeqSum(_, _, _)
\* sum of s over the 0-based indices from .. from+n-1, left to right
SeqSum(s, from, n) ==
  IF n = 0 THEN 0 ELSE SeqSum(s, from, n - 1) + At(s, from + n - 1)

----------------------------------------------------------------------------
(* SignalProcessor.findIntervals, src/index.js:74-88                       *)

\* One call of the forEach callback: element f at index i, with the closure's
\* start and intervals in st.
FindIntervalsStep(st, f, i, mLen) ==
  LET s1 == IF f /\ st.start = Null THEN i ELSE st.start
  IN  IF ~f /\ s1 # Null
        THEN [start |-> Null,
              intervals |-> IF i - s1 >= mLen
                              THEN Append(st.intervals, <<s1, i - 1>>)
                              ELSE st.intervals]
        ELSE [start |-> s1, intervals |-> st.intervals]

RECURSIVE FindIntervalsLoop(_, _, _, _, _)
\* the closure's state after the callback ran for the indices lo .. hi-1 in
\* order, from state st (the range is halved to bound the evaluation depth)
FindIntervalsLoop(fl, mLen, st, lo, hi) ==
  IF hi <= lo THEN st
  ELSE IF hi = lo + 1 THEN FindIntervalsStep(st, At(fl, lo), lo, mLen)
  ELSE LET mid == (lo + hi) \div 2
           half == FindIntervalsLoop(fl, mLen, st, lo, mid)
       IN  After(half, FindIntervalsLoop(fl, mLen, half, mid, hi))

\* let start = null, intervals = [], then flags.forEach
FindIntervalsScan(fl, mLen) ==
  FindIntervalsLoop(fl, mLen, [start |-> Null, intervals |-> <<>>], 0, Len(fl))

FindIntervalsOffByOne(fl, mLen) ==
  LET st == FindIntervalsScan(fl, mLen)
  IN  IF st.start # Null /\ Len(fl) - st.start > mLen
        THEN Append(st.intervals, <<st.start, Len(fl) - 1>>)
        ELSE st.intervals

FindIntervals(fl, mLen) ==
  LET st == FindIntervalsScan(fl, mLen)
  IN  IF st.start # Null /\ Len(fl) - st.start >= mLen
        THEN Append(st.intervals, <<st.start, Len(fl) - 1>>)
        ELSE st.intervals

----------------------------------------------------------------------------
(* findSignalIntervals, src/index.js:294-315.  isSig is the Float32Array   *)
(* detectSignal returns: 1 for true, 0 for false; 0 is falsy.              *)

Truthy(x) == x # 0

FindSignalIntervalsStep(st, x, i, mLen) ==
  LET enter == ~st.inSig /\ Truthy(x)
      in1   == st.inSig \/ enter
      s1    == IF enter THEN i ELSE st.start
  IN  IF in1 /\ ~Truthy(x)
        THEN [inSig |-> FALSE, start |-> s1,
              intervals |-> IF (i - 1) - s1 + 1 >= mLen
                              THEN Append(st.intervals, <<s1, i - 1>>)
                              ELSE st.intervals]
        ELSE [inSig |-> in1, start |-> s1, intervals |-> st.intervals]

RECURSIVE FindSignalIntervalsLoop(_, _, _, _, _)
\* the locals after the loop body ran for i = lo .. hi-1 in order, from st
FindSignalIntervalsLoop(isSig, mLen, st, lo, hi) ==
  IF hi <= lo THEN st
  ELSE IF hi = lo + 1 THEN FindSignalIntervalsStep(st, At(isSig, lo), lo, mLen)
  ELSE LET mid == (lo + hi) \div 2
           half == FindSignalIntervalsLoop(isSig, mLen, st, lo, mid)
       IN  After(half, FindSignalIntervalsLoop(isSig, mLen, half, mid, hi))

\* let inSig = false, start = 0, intervals = [], then the for loop
FindSignalIntervalsScan(isSig, mLen) ==
  FindSignalIntervalsLoop(isSig, mLen, [inSig |-> FALSE, start |-> 0, intervals |-> <<>>],
                          0, Len(isSig))

FindSignalIntervalsNoTail(isSig, mLen) == FindSignalIntervalsScan(isSig, mLen).intervals

FindSignalIntervals(isSig, mLen) ==
  LET st == FindSignalIntervalsScan(isSig, mLen)
      end == Len(isSig) - 1
  IN  IF st.inSig /\ end - st.start + 1 >= mLen
        THEN Append(st.intervals, <<st.start, end>>)
        ELSE st.intervals

\* The numeric mask a boolean mask corresponds to (Float32Array.map of v => bool)
AsNumbers(fl) == [k \in 1..Len(fl) |-> IF fl[k] THEN 1 ELSE 0]

----------------------------------------------------------------------------
(* SignalProcessor.readIq, src/index.js:38-48, and readCU8File, 260-269.   *)
(* len = buffer.length / 2 is not rounded: for an odd length it is k + 0.5,*)
(* new Uint8Array(len) truncates it to k elements (ToIndex), and the loop  *)
(* runs while i < len, that is for i = 0 .. k.  A store past the end of a  *)
(* typed array is ignored; buffer[j] past the end is undefined, which a    *)
(* Uint8Array stores as 0.                                                 *)

\* new Uint8Array(twice / 2)
NewTypedArrayRoundedUp(twice) == [k \in 1..((twice + 1) \div 2) |-> 0]

NewTypedArray(twice) == [k \in 1..(twice \div 2) |-> 0]

\* arr[i] = v on a typed array
TypedStore(arr, i, v) == IF i < Len(arr) THEN [arr EXCEPT ![i + 1] = v] ELSE arr

\* buffer[j], as a Uint8Array element stores it
BufferAt(buf, j) == IF j < Len(buf) THEN buf[j + 1] ELSE 0

\* number of iterations of for (i = 0; i < length / 2; i++)
LoopCount(buf) == (Len(buf) + 1) \div 2

\* the loop body: I[i] = buffer[2 * i]; Q[i] = buffer[2 * i + 1]
DeinterleaveStep(buf, st, i) ==
  [I |-> TypedStore(st.I, i, BufferAt(buf, 2 * i)),
   Q |-> TypedStore(st.Q, i, BufferAt(buf, 2 * i + 1))]

RECURSIVE DeinterleaveLoop(_, _, _, _)
\* I and Q after the loop body ran for i = lo .. hi-1 in order, from st
DeinterleaveLoop(buf, st, lo, hi) ==
  IF hi <= lo THEN st
  ELSE IF hi = lo + 1 THEN DeinterleaveStep(buf, st, lo)
  ELSE LET mid == (lo + hi) \div 2
           half == DeinterleaveLoop(buf, st, lo, mid)
       IN  After(half, DeinterleaveLoop(buf, half, mid, hi))

ReadIq(buf) ==
  DeinterleaveLoop(buf, [I |-> NewTypedArray(Len(buf)), Q |-> NewTypedArray(Len(buf))],
                   0, LoopCount(buf))

ReadCU8File(buf) ==
  DeinterleaveLoop(buf, [I |-> NewTypedArray(Len(buf)), Q |-> NewTypedArray(Len(buf))],
                   0, LoopCount(buf))

----------------------------------------------------------------------------
(* normalize 50-59 / normalizeIQ 271-279, calculatePower 61-68 /           *)
(* computePower 281-288, aboveThreshold 70-72 / detectSignal 290-292.      *)
(* The values are integers of magnitude at most 2 * 128^2, exact in a      *)
(* Float32Array.                                                           *)

Normalize(raw) ==
  [I |-> [k \in 1..Len(raw.I) |-> raw.I[k] - 128],
   Q |-> [k \in 1..Len(raw.I) |-> raw.Q[k] - 128]]

CalculatePower(norm) ==
  [k \in 1..Len(norm.I) |-> norm.I[k] * norm.I[k] + norm.Q[k] * norm.Q[k]]

\* Array.from(power, v => v > threshold): an array of booleans
AboveThreshold(power, thr) == [k \in 1..Len(power) |-> power[k] > thr]

\* power.map(v => v > threshold) on a Float32Array: true is stored as 1, false as 0
DetectSignal(power, thr) == [k \in 1..Len(power) |-> IF power[k] > thr THEN 1 ELSE 0]

----------------------------------------------------------------------------
(* computePhases, src/index.js:90-97 and 317-324.  Math.atan2(q, i) in     *)
(* eighths of a turn, for a sample on an axis or a diagonal; normalized    *)
(* samples are never -0, so atan2(0, i < 0) is +PI and atan2(0, 0) is 0.   *)

Atan2(q, i) ==
  CASE q = 0 /\ i >= 0 -> 0
    [] q = 0 /\ i < 0  -> PI
    [] i = 0 /\ q > 0  -> 2
    [] i = 0 /\ q < 0  -> -2
    [] q = i /\ q > 0  -> 1
    [] q = -i /\ q > 0 -> 3
    [] q = -i /\ q < 0 -> -1
    [] q = i /\ q < 0  -> -3

ComputePhases(norm) == [k \in 1..Len(norm.I) |-> Atan2(norm.Q[k], norm.I[k])]

----------------------------------------------------------------------------
(* computeDiffs, src/index.js:99-109, and computePhaseDiff, 326-337        *)

\* the loop body's d for one pair of consecutive phases
WrapDiff(cur, prev) ==
  LET d0 == cur - prev
      d1 == IF d0 > PI THEN d0 - 2 * PI ELSE d0
  IN  IF d1 < -PI THEN d1 + 2 * PI ELSE d1

\* diffs[0] is the typed array's initial 0
ComputeDiffs(ph) ==
  [k \in 1..Len(ph) |-> IF k = 1 THEN 0 ELSE WrapDiff(ph[k], ph[k - 1])]

\* dp[0] = 0 is stored explicitly (and ignored when n = 0)
ComputePhaseDiff(ph) ==
  [k \in 1..Len(ph) |-> IF k = 1 THEN 0 ELSE WrapDiff(ph[k], ph[k - 1])]

----------------------------------------------------------------------------
(* decodeBits, src/index.js:111-124, and decodeFSK, 339-352                *)

\* Math.floor(total / samplesPerBit)
SymbolCount(iv, w) == Floor(iv[2] - iv[1] + 1, w)

BitOfSumTieIsOne(sum) == IF sum >= 0 THEN "1" ELSE "0"

\* sum > 0 ? '1' : '0'
BitOfSum(sum) == IF sum > 0 THEN "1" ELSE "0"

\* the indices of diffs the inner loops read: offset + k
DecodeReads(iv, w) ==
  {(iv[1] + s * w) + k : s \in 0..(SymbolCount(iv, w) - 1), k \in 0..(w - 1)}

DecodeBits(dfs, iv, w) ==
  [s \in 1..SymbolCount(iv, w) |-> BitOfSum(SeqSum(dfs, iv[1] + (s - 1) * w, w))]

\* sum > 0 ? 1 : 0
DecodeFSK(dphi, start, end, w) ==
  [s \in 1..SymbolCount(<<start, end>>, w) |->
     IF SeqSum(dphi, start + (s - 1) * w, w) > 0 THEN 1 ELSE 0]

----------------------------------------------------------------------------
(* extractSequences, src/index.js:126-142, and                             *)
(* extractUnique64BitSequences, 354-371.  A JavaScript Set keeps insertion *)
(* order and ignores a value it already holds; [...set] lists it in that   *)
(* order.                                                                  *)

Range(s) == {s[k] : k \in 1..Len(s)}

SetAddAlways(set, x) == Append(set, x)

\* Set.prototype.add
SetAdd(set, x) == IF x \in Range(set) THEN set ELSE Append(set, x)

\* validLen, line 135
ValidLen ==
  PREAMBLE_LENGTH + SYNC_WORD_LENGTH + DEVICE_ID_LENGTH + COMMAND_LENGTH + BATTERY_LENGTH

\* lines 129-131, from the normalized samples
ExtractIntervals(norm, thr, mLen) ==
  FindIntervals(AboveThreshold(CalculatePower(norm), thr), mLen)

RECURSIVE CollectSequences(_, _, _, _)
\* the Set after intervals.forEach ran for the first n intervals
CollectSequences(dfs, ivs, w, n) ==
  IF n = 0 THEN <<>>
  ELSE LET set == CollectSequences(dfs, ivs, w, n - 1)
           bits == DecodeBits(dfs, ivs[n], w)
       IN  IF Len(bits) = ValidLen THEN SetAdd(set, bits) ELSE set

\* the function's locals when it returns: the intervals found and the value
\* returned
ExtractSequencesRun(buf, thr, mLen, w) ==
  LET norm == Normalize(ReadIq(buf))
      ivs == ExtractIntervals(norm, thr, mLen)
  IN  [ran |-> TRUE,
       intervals |-> ivs,
       sequences |-> IF Len(ivs) = 0 THEN <<>>
                     ELSE CollectSequences(ComputeDiffs(ComputePhases(norm)), ivs, w,
                                           Len(ivs))]

ExtractSequences(buf, thr, mLen, w) == ExtractSequencesRun(buf, thr, mLen, w).sequences

\* bits.join('') of an array of the numbers 1 and 0
Join(bits) == [k \in 1..Len(bits) |-> IF bits[k] = 1 THEN "1" ELSE "0"]

\* lines 357-359, from the normalized samples
Extract64Intervals(norm, thr, mLen) ==
  FindSignalIntervals(DetectSignal(CalculatePower(norm), thr), mLen)

RECURSIVE Collect64(_, _, _, _)
Collect64(dphi, ivs, w, n) ==
  IF n = 0 THEN <<>>
  ELSE LET set == Collect64(dphi, ivs, w, n - 1)
           bits == DecodeFSK(dphi, ivs[n][1], ivs[n][2], w)
       IN  IF Len(bits) = 64 THEN SetAdd(set, Join(bits)) ELSE set

ExtractUnique64BitSequencesRun(buf, thr, mLen, w) ==
  LET norm == Normalize(ReadCU8File(buf))
      ivs == Extract64Intervals(norm, thr, mLen)
  IN  [ran |-> TRUE,
       intervals |-> ivs,
       sequences |-> IF Len(ivs) = 0 THEN <<>>
                     ELSE Collect64(ComputePhaseDiff(ComputePhases(norm)), ivs, w, Len(ivs))]

ExtractUnique64BitSequences(buf, thr, mLen, w) ==
  ExtractUnique64BitSequencesRun(buf, thr, mLen, w).sequences

----------------------------------------------------------------------------
(* FrameParser, src/index.js:145-168                                       *)

HexDigits == <<"0","1","2","3","4","5","6","7","8","9","a","b","c","d","e","f">>
DecDigits == <<"0","1","2","3","4","5","6","7","8","9">>

RECURSIVE ParseInt2(_)
\* parseInt(s, 2) for a non-empty string of '0' and '1'
ParseInt2(s) ==
  IF Len(s) = 0 THEN 0
  ELSE 2 * ParseInt2(SubSeq(s, 1, Len(s) - 1)) + (IF s[Len(s)] = "1" THEN 1 ELSE 0)

NumberToStringDecimal(v) ==
  IF v < 10 THEN <<DecDigits[v + 1]>> ELSE <<DecDigits[(v \div 10) + 1], DecDigits[(v % 10) + 1]>>

\* v.toString(16) for 0 <= v < 16
NumberToString16(v) == <<HexDigits[v + 1]>>

\* b.padStart(Math.ceil(b.length / 4) * 4, '0')
PadStart4(b) ==
  LET target == ((Len(b) + 3) \div 4) * 4
  IN  [k \in 1..(target - Len(b)) |-> "0"] \o b

RECURSIVE BinToHexLoop(_, _)
\* h after the loop body ran for the first n nibbles of the padded string
BinToHexLoop(b, n) ==
  IF n = 0 THEN <<>>
  ELSE BinToHexLoop(b, n - 1)
         \o NumberToString16(ParseInt2(Slice(b, 4 * (n - 1), 4 * (n - 1) + 4)))

BinToHex(b) == BinToHexLoop(PadStart4(b), Len(PadStart4(b)) \div 4)

\* COMMANDS[commandBits] || 'UNKNOWN'
CommandOf(commandBits) ==
  CASE commandBits = <<"0","0","1">> -> "OPEN"
    [] commandBits = <<"0","1","0">> -> "CLOSE"
    [] OTHER -> "UNKNOWN"

\* BATTERY_STATUS[batteryBit] || 'UNKNOWN'
BatteryOf(batteryBit) ==
  CASE batteryBit = <<"1">> -> "OK"
    [] batteryBit = <<"0">> -> "LOW"
    [] OTHER -> "UNKNOWN"

Parse(fr) ==
  LET idStart == PREAMBLE_LENGTH + SYNC_WORD_LENGTH
      cmdStart == idStart + DEVICE_ID_LENGTH
  IN  [sync |-> Slice(fr, PREAMBLE_LENGTH, PREAMBLE_LENGTH + SYNC_WORD_LENGTH),
       deviceId |-> <<"0", "x">> \o BinToHex(Slice(fr, idStart, idStart + DEVICE_ID_LENGTH)),
       command |-> CommandOf(Slice(fr, cmdStart, cmdStart + COMMAND_LENGTH)),
       battery |-> BatteryOf(Slice(fr, cmdStart + COMMAND_LENGTH,
                                   cmdStart + COMMAND_LENGTH + BATTERY_LENGTH))]

----------------------------------------------------------------------------
(* MqttClient.send, src/index.js:28-34; publishDiscovery, 177-227;         *)
(* processFile, 229-247.  A topic is the tuple of its levels.  The client  *)
(* state st is [connected, listeners, published, discovered, log]; log is  *)
(* a history of the frames the forEach callback was called with: what      *)
(* parse returned, and the number of send calls and the discovered set     *)
(* before and after the call.                                              *)

Send(st, topic, message, retain) ==
  LET m == [topic |-> topic, message |-> message, retain |-> retain]
  IN  IF st.connected
        THEN [st EXCEPT !.published = Append(@, m)]
        ELSE [st EXCEPT !.listeners = Append(@, m)]

StateTopic(deviceId) == <<"rtl_433", deviceId>>

ConfigTopic(deviceId, entity) ==
  <<"homeassistant", "binary_sensor", deviceId, entity, "config">>

\* the parts of the discovery payload that depend on the device
ConfigPayload(deviceId, entity) ==
  [identifiers |-> <<deviceId>>, object_id |-> <<deviceId, entity>>,
   state_topic |-> StateTopic(deviceId), unique_id |-> <<deviceId, entity>>]

PublishDiscoveryForgetful(st, deviceId) ==
  LET s1 == Send(st, ConfigTopic(deviceId, "contact"),
                 ConfigPayload(deviceId, "contact"), TRUE)
  IN  Send(s1, ConfigTopic(deviceId, "battery_low"),
           ConfigPayload(deviceId, "battery_low"), TRUE)

PublishDiscovery(st, deviceId) ==
  LET s1 == Send(st, ConfigTopic(deviceId, "contact"),
                 ConfigPayload(deviceId, "contact"), TRUE)
      s2 == Send(s1, ConfigTopic(deviceId, "battery_low"),
                 ConfigPayload(deviceId, "battery_low"), TRUE)
  IN  [s2 EXCEPT !.discovered = @ \cup {deviceId}]

\* how many times send has been called
SendCount(st) == Len(st.published) + Len(st.listeners)

SyncAcceptedAlways(sync) == TRUE

\* the negation of line 238's early return
SyncAccepted(sync) == sync = SYNC_WORD

\* the forEach callback of processFile, lines 236-246
HandleFrame(st, frameBits) ==
  LET p == Parse(frameBits)
      s1 == IF p.deviceId \in st.discovered THEN st ELSE PublishDiscovery(st, p.deviceId)
      s2 == Send(s1, StateTopic(p.deviceId),
                 [contact |-> p.command = "OPEN", battery_low |-> p.battery = "LOW"],
                 FALSE)
      after == IF SyncAccepted(p.sync) THEN s2 ELSE st
  IN  [after EXCEPT !.log = Append(@, [frame |-> frameBits,
                                       parsed |-> p,
                                       sentBefore |-> SendCount(st),
                                       sentAfter |-> SendCount(after),
                                       discBefore |-> st.discovered,
                                       discAfter |-> after.discovered])]

RECURSIVE HandleFrames(_, _, _)
\* the state after the callback ran for the first n frames
HandleFrames(st, frames, n) ==
  IF n = 0 THEN st ELSE HandleFrame(HandleFrames(st, frames, n - 1), frames[n])

----------------------------------------------------------------------------
(* processDirectory, src/index.js:373-383.  A directory entry is           *)
(* [name, kind, bytes]: kind "file" (readFileSync returns bytes), "dir"    *)
(* (statSync(..).isFile() is false) or "unreadable" (readFileSync throws). *)
(* An exception thrown in the forEach callback leaves forEach and          *)
(* processDirectory: there is no try/catch.                                *)

\* results[file] = value
ObjectSet(obj, key, value) ==
  [k \in (DOMAIN obj) \cup {key} |-> IF k = key THEN value ELSE obj[k]]

RECURSIVE ProcessDirectoryLoop(_, _, _, _, _)
\* [results, threw] after the callback ran for the first n entries, or threw
ProcessDirectoryLoop(files, thr, mLen, w, n) ==
  IF n = 0 THEN [results |-> <<>>, threw |-> FALSE]
  ELSE LET prev == ProcessDirectoryLoop(files, thr, mLen, w, n - 1)
           file == files[n]
       IN  CASE prev.threw -> prev
             [] ~prev.threw /\ file.kind = "dir" -> prev
             [] ~prev.threw /\ file.kind = "unreadable" -> [prev EXCEPT !.threw = TRUE]
             [] ~prev.threw /\ file.kind = "file" ->
                  [prev EXCEPT !.results =
                     ObjectSet(@, file.name,
                               ExtractUnique64BitSequences(file.bytes, thr, mLen, w))]

ProcessDirectory(files, thr, mLen, w) ==
  ProcessDirectoryLoop(files, thr, mLen, w, Len(files))

----------------------------------------------------------------------------
(* Bounds of the model                                                     *)

MaxMaskLen == 7        \* masks of 0 .. MaxMaskLen samples
MaxMinLen == 3         \* minLen in 1 .. MaxMinLen
MaxBufLen == 5         \* byte buffers of 0 .. MaxBufLen bytes
MaxIdIdx == 4          \* device ids IdOf(0) .. IdOf(MaxIdIdx)
MaxSamples == 3        \* captures of 0 .. MaxSamples samples (phase differences)
MaxDiffsLen == 5       \* diff arrays of 1 .. MaxDiffsLen elements
MaxWidth == 3          \* samples per bit in 1 .. MaxWidth (bit slicer)
MaxSpb == 2            \* samples per bit in 1 .. MaxSpb (whole captures)
ScaledSamplesPerBit == 1  \* samples per bit of the watched and listed captures
MaxFrames == 3         \* the watcher stops after MaxFrames handled frames
MaxDirLen == 3         \* directories of 0 .. MaxDirLen entries

\* MIN_SIGNAL_LENGTH / SAMPLES_PER_BIT = 35000 / 635: the minimum run is 55 bit
\* periods.  The captures below keep this ratio at a samples-per-bit width w
\* small enough to enumerate.
ScaledMinSignalLength(w) == 55 * w

----------------------------------------------------------------------------
(* Inputs: bit strings and frames built from known field values            *)

RECURSIVE ToBits(_, _)
\* the n-bit binary numeral of v, most significant bit first
ToBits(v, n) ==
  IF n = 0 THEN <<>> ELSE Append(ToBits(v \div 2, n - 1), IF v % 2 = 1 THEN "1" ELSE "0")

MakeFrame(f) ==
  ToBits(f.pre, PREAMBLE_LENGTH) \o ToBits(f.sync, SYNC_WORD_LENGTH)
    \o ToBits(f.id, DEVICE_ID_LENGTH) \o ToBits(f.cmd, COMMAND_LENGTH)
    \o ToBits(f.bat, BATTERY_LENGTH)

\* SYNC_WORD read as a binary number
SyncValue == ParseInt2(SYNC_WORD)

\* a spread of 20-bit ids: multiples of 0x12345 modulo 2^20
IdOf(k) == (k * 74565) % 1048576

PreambleValues == {0, 11184810, 16777215}
SyncValues == {SyncValue, SyncValue + 1, 0}
IdValues == {IdOf(k) : k \in 0..MaxIdIdx} \cup {1, 1048575}

FieldValues ==
  [pre : PreambleValues, sync : SyncValues, id : IdValues, cmd : 0..7, bat : 0..1]

----------------------------------------------------------------------------
(* Inputs: captures.  A burst turns the phase by one eighth of a turn per  *)
(* sample, forward for a '1' bit and backward for a '0' bit, w samples per *)
(* bit, at full amplitude (bytes 28, 128, 228); a gap holds samples at     *)
(* rest (128, 128) or weak noise (130, 130), whose power 8 is above        *)
(* POWER_THRESHOLD and not above 8.                                        *)

DirSample(d) ==
  <<CASE d \in {0, 1, 7} -> 228 [] d \in {2, 6} -> 128 [] d \in {3, 4, 5} -> 28,
    CASE d \in {1, 2, 3} -> 228 [] d \in {0, 4} -> 128 [] d \in {5, 6, 7} -> 28>>

\* the bit sample k of a burst belongs to (the last one, past the end)
BurstBit(bits, w, k) == bits[Min(((k - 1) \div w) + 1, Len(bits))]

\* the direction of sample k: one step per sample from direction 0
BurstDir(bits, w, k) ==
  LET fwd == Cardinality({j \in 1..k : BurstBit(bits, w, j) = "1"})
  IN  (fwd - (k - fwd)) % 8

Burst(bits, w, extra) ==
  [k \in 1..(Len(bits) * w + extra) |-> DirSample(BurstDir(bits, w, k))]

Gap(n, level) == [k \in 1..n |-> <<level, level>>]

\* the file's bytes: I then Q of each sample, and tail dangling bytes
Interleave(samples, tail) ==
  [j \in 1..(2 * Len(samples) + tail) |->
     IF j > 2 * Len(samples) THEN 200
     ELSE samples[(j + 1) \div 2][IF j % 2 = 1 THEN 1 ELSE 2]]

----------------------------------------------------------------------------
(* Interval extractor: findIntervals and findSignalIntervals on every mask *)
(* of up to MaxMaskLen samples, and on the mask of the documented example. *)

ExampleMask ==
  <<FALSE, TRUE, TRUE, TRUE, FALSE, TRUE, TRUE, FALSE, FALSE, TRUE, TRUE, TRUE, TRUE>>

Masks == UNION {[1..n -> BOOLEAN] : n \in 0..MaxMaskLen} \cup {ExampleMask}

InitIntervals ==
  /\ op = "init"
  /\ flags \in Masks
  /\ minLen \in 1..MaxMinLen
  /\ intervals = <<>>
  /\ buffer = Unused
  /\ iq = Unused
  /\ fields = Unused
  /\ frame = Unused
  /\ parsed = Unused
  /\ phases = Unused
  /\ diffs = Unused
  /\ interval = Unused
  /\ samplesPerBit = Unused
  /\ threshold = Unused
  /\ decoded = Unused
  /\ spOut = Unused
  /\ fnOut = Unused
  /\ connected = Unused
  /\ listeners = Unused
  /\ published = Unused
  /\ discovered = Unused
  /\ log = Unused
  /\ dir = Unused
  /\ results = Unused
  /\ outcome = Unused

CallFindIntervals ==
  /\ op = "init"
  /\ op' = "findIntervals"
  /\ intervals' = FindIntervals(flags, minLen)
  /\ UNCHANGED <<flags, minLen, buffer, iq, fields, frame, parsed, phases,
                 diffs, interval, samplesPerBit, threshold, decoded, spOut,
                 fnOut, connected, listeners, published, discovered, log, dir,
                 results, outcome>>

CallFindSignalIntervals ==
  /\ op = "init"
  /\ op' = "findSignalIntervals"
  /\ intervals' = FindSignalIntervals(AsNumbers(flags), minLen)
  /\ UNCHANGED <<flags, minLen, buffer, iq, fields, frame, parsed, phases,
                 diffs, interval, samplesPerBit, threshold, decoded, spOut,
                 fnOut, connected, listeners, published, discovered, log, dir,
                 results, outcome>>

NextIntervals == CallFindIntervals \/ CallFindSignalIntervals

SpecIntervals == InitIntervals /\ [][NextIntervals]_vars

\* The maximal runs of true samples of length >= m, as inclusive index pairs
MaximalRuns(fl, m) ==
  {r \in (0..(Len(fl) - 1)) \X (0..(Len(fl) - 1)) :
     /\ r[1] <= r[2]
     /\ \A k \in r[1]..r[2] : fl[k + 1]
     /\ r[1] = 0 \/ ~fl[r[1]]
     /\ r[2] = Len(fl) - 1 \/ ~fl[r[2] + 2]
     /\ r[2] - r[1] + 1 >= m}

\* C1: findIntervals and findSignalIntervals return exactly the maximal runs of
\* true samples of length >= minLen, as inclusive [start, end] pairs, each
\* once, in increasing order and pairwise disjoint; the example mask with
\* minLen 3 gives [1,3] and [9,12].
C1_MaximalRuns ==
  op \in {"findIntervals", "findSignalIntervals"} =>
    /\ Range(intervals) = MaximalRuns(flags, minLen)
    /\ \A k \in 1..(Len(intervals) - 1) : intervals[k][2] < intervals[k + 1][1]
    /\ (flags = ExampleMask /\ minLen = 3) => intervals = <<<<1, 3>>, <<9, 12>>>>

C1_Witness ==
  /\ op = "findSignalIntervals"
  /\ flags = ExampleMask
  /\ minLen = 3
  /\ intervals = <<<<1, 3>>, <<9, 12>>>>

----------------------------------------------------------------------------
(* Sample loader: readIq and readCU8File on every buffer of up to          *)
(* MaxBufLen bytes, of even and of odd length.                             *)

ByteValues == {0, 128, 255}

Buffers == UNION {[1..n -> ByteValues] : n \in 0..MaxBufLen}

InitRead ==
  /\ op = "init"
  /\ buffer \in Buffers
  /\ iq = <<>>
  /\ flags = Unused
  /\ minLen = Unused
  /\ intervals = Unused
  /\ fields = Unused
  /\ frame = Unused
  /\ parsed = Unused
  /\ phases = Unused
  /\ diffs = Unused
  /\ interval = Unused
  /\ samplesPerBit = Unused
  /\ threshold = Unused
  /\ decoded = Unused
  /\ spOut = Unused
  /\ fnOut = Unused
  /\ connected = Unused
  /\ listeners = Unused
  /\ published = Unused
  /\ discovered = Unused
  /\ log = Unused
  /\ dir = Unused
  /\ results = Unused
  /\ outcome = Unused

CallReadIq ==
  /\ op = "init"
  /\ op' = "readIq"
  /\ iq' = ReadIq(buffer)
  /\ UNCHANGED <<flags, minLen, intervals, buffer, fields, frame, parsed,
                 phases, diffs, interval, samplesPerBit, threshold, decoded,
                 spOut, fnOut, connected, listeners, published, discovered,
                 log, dir, results, outcome>>

CallReadCU8File ==
  /\ op = "init"
  /\ op' = "readCU8File"
  /\ iq' = ReadCU8File(buffer)
  /\ UNCHANGED <<flags, minLen, intervals, buffer, fields, frame, parsed,
                 phases, diffs, interval, samplesPerBit, threshold, decoded,
                 spOut, fnOut, connected, listeners, published, discovered,
                 log, dir, results, outcome>>

NextRead == CallReadIq \/ CallReadCU8File

SpecRead == InitRead /\ [][NextRead]_vars

\* C8: for a buffer of n bytes, even or odd, readIq (and readCU8File) returns I
\* and Q of length floor(n/2) with I[i] = buffer[2i] and Q[i] = buffer[2i+1];
\* the dangling last byte of an odd buffer is in neither.
C8_Deinterleave ==
  op \in {"readIq", "readCU8File"} =>
    /\ Len(iq.I) = Len(buffer) \div 2
    /\ Len(iq.Q) = Len(buffer) \div 2
    /\ \A i \in 0..((Len(buffer) \div 2) - 1) :
         /\ iq.I[i + 1] = buffer[2 * i + 1]
         /\ iq.Q[i + 1] = buffer[2 * i + 2]

C8_Witness ==
  /\ op = "readIq"
  /\ buffer = <<0, 128, 255, 0, 255>>
  /\ iq = [I |-> <<0, 255>>, Q |-> <<128, 0>>]

----------------------------------------------------------------------------
(* Phase demodulator: computeDiffs and computePhaseDiff on the phases of   *)
(* every capture of up to MaxSamples samples, each sample at rest or at    *)
(* full amplitude in one of the eight directions.                          *)

SampleValues == {DirSample(d) : d \in 0..7} \cup {<<128, 128>>}

SmallCaptures ==
  {Interleave(s, 0) : s \in UNION {[1..n -> SampleValues] : n \in 0..MaxSamples}}

InitDiff ==
  /\ op = "init"
  /\ buffer \in SmallCaptures
  /\ phases = <<>>
  /\ diffs = <<>>
  /\ flags = Unused
  /\ minLen = Unused
  /\ intervals = Unused
  /\ iq = Unused
  /\ fields = Unused
  /\ frame = Unused
  /\ parsed = Unused
  /\ interval = Unused
  /\ samplesPerBit = Unused
  /\ threshold = Unused
  /\ decoded = Unused
  /\ spOut = Unused
  /\ fnOut = Unused
  /\ connected = Unused
  /\ listeners = Unused
  /\ published = Unused
  /\ discovered = Unused
  /\ log = Unused
  /\ dir = Unused
  /\ results = Unused
  /\ outcome = Unused

CallComputeDiffs ==
  /\ op = "init"
  /\ op' = "computeDiffs"
  /\ phases' = ComputePhases(Normalize(ReadIq(buffer)))
  /\ diffs' = ComputeDiffs(phases')
  /\ UNCHANGED <<flags, minLen, intervals, buffer, iq, fields, frame, parsed,
                 interval, samplesPerBit, threshold, decoded, spOut, fnOut,
                 connected, listeners, published, discovered, log, dir,
                 results, outcome>>

CallComputePhaseDiff ==
  /\ op = "init"
  /\ op' = "computePhaseDiff"
  /\ phases' = ComputePhases(Normalize(ReadCU8File(buffer)))
  /\ diffs' = ComputePhaseDiff(phases')
  /\ UNCHANGED <<flags, minLen, intervals, buffer, iq, fields, frame, parsed,
                 interval, samplesPerBit, threshold, decoded, spOut, fnOut,
                 connected, listeners, published, discovered, log, dir,
                 results, outcome>>

NextDiff == CallComputeDiffs \/ CallComputePhaseDiff

SpecDiff == InitDiff /\ [][NextDiff]_vars

\* C7: for consecutive phases each in (-PI, PI], the value stored in diff[i] is
\* strictly greater than -PI and at most PI, and diff[0] is 0.
C7_HalfOpenRange ==
  op \in {"computeDiffs", "computePhaseDiff"} =>
    /\ \A k \in 1..Len(phases) : -PI < phases[k] /\ phases[k] <= PI
    /\ \A k \in 1..Len(diffs) : -PI < diffs[k] /\ diffs[k] <= PI
    /\ Len(diffs) > 0 => diffs[1] = 0

----------------------------------------------------------------------------
(* Bit slicer: decodeBits and decodeFSK on every array of up to            *)
(* MaxDiffsLen phase differences, every interval inside it and every       *)
(* width in 1 .. MaxWidth.                                                 *)

DiffValues == {-1, 0, 1}

DiffArrays == UNION {[1..n -> DiffValues] : n \in 1..MaxDiffsLen}

InitDecode ==
  /\ op = "init"
  /\ diffs \in DiffArrays
  /\ interval \in {iv \in (0..(Len(diffs) - 1)) \X (0..(Len(diffs) - 1)) : iv[1] <= iv[2]}
  /\ samplesPerBit \in 1..MaxWidth
  /\ decoded = <<>>
  /\ flags = Unused
  /\ minLen = Unused
  /\ intervals = Unused
  /\ buffer = Unused
  /\ iq = Unused
  /\ fields = Unused
  /\ frame = Unused
  /\ parsed = Unused
  /\ phases = Unused
  /\ threshold = Unused
  /\ spOut = Unused
  /\ fnOut = Unused
  /\ connected = Unused
  /\ listeners = Unused
  /\ published = Unused
  /\ discovered = Unused
  /\ log = Unused
  /\ dir = Unused
  /\ results = Unused
  /\ outcome = Unused

CallDecodeBits ==
  /\ op = "init"
  /\ op' = "decodeBits"
  /\ decoded' = [bits |-> DecodeBits(diffs, interval, samplesPerBit),
                 reads |-> DecodeReads(interval, samplesPerBit)]
  /\ UNCHANGED <<flags, minLen, intervals, buffer, iq, fields, frame, parsed,
                 phases, diffs, interval, samplesPerBit, threshold, spOut,
                 fnOut, connected, listeners, published, discovered, log, dir,
                 results, outcome>>

CallDecodeFSK ==
  /\ op = "init"
  /\ op' = "decodeFSK"
  /\ decoded' = [bits |-> Join(DecodeFSK(diffs, interval[1], interval[2], samplesPerBit)),
                 reads |-> DecodeReads(interval, samplesPerBit)]
  /\ UNCHANGED <<flags, minLen, intervals, buffer, iq, fields, frame, parsed,
                 phases, diffs, interval, samplesPerBit, threshold, spOut,
                 fnOut, connected, listeners, published, discovered, log, dir,
                 results, outcome>>

NextDecode == CallDecodeBits \/ CallDecodeFSK

SpecDecode == InitDecode /\ [][NextDecode]_vars

RECURSIVE SumOver(_, _)
\* the sum of diffs[i] over the set idx of 0-based indices
SumOver(d, idx) ==
  IF idx = {} THEN 0
  ELSE LET i == CHOOSE x \in idx : TRUE IN d[i + 1] + SumOver(d, idx \ {i})

\* C5: decodeBits (and decodeFSK) returns floor((end-start+1)/w) bits; bit s is
\* '1' exactly when the sum of diff[start+s*w .. start+s*w+w-1] is > 0 (a sum of
\* 0 gives '0'); every index read lies in [start, end] and none of the trailing
\* (end-start+1) mod w samples is read.
C5_IntegrateAndDump ==
  op \in {"decodeBits", "decodeFSK"} =>
    LET start == interval[1]
        end == interval[2]
        w == samplesPerBit
        total == end - start + 1
    IN  /\ Len(decoded.bits) = total \div w
        /\ \A s \in 0..(Len(decoded.bits) - 1) :
             /\ decoded.bits[s + 1] \in {"0", "1"}
             /\ decoded.bits[s + 1] = "1"
                  <=> SumOver(diffs, (start + s * w)..(start + s * w + w - 1)) > 0
        /\ decoded.reads \subseteq start..end
        /\ decoded.reads \cap ((end - (total % w) + 1)..end) = {}
        /\ decoded.reads = start..(end - (total % w))

C5_Witness ==
  /\ op = "decodeBits"
  /\ diffs = <<1, 1, -1, 0, 1>>
  /\ interval = <<0, 4>>
  /\ samplesPerBit = 2
  /\ decoded.bits = <<"1", "0">>
  /\ decoded.reads = 0..3

----------------------------------------------------------------------------
(* Frame parser: parse on 64-character frames built from known fields.     *)

InitParse ==
  /\ op = "init"
  /\ fields \in FieldValues
  /\ frame = MakeFrame(fields)
  /\ parsed = <<>>
  /\ flags = Unused
  /\ minLen = Unused
  /\ intervals = Unused
  /\ buffer = Unused
  /\ iq = Unused
  /\ phases = Unused
  /\ diffs = Unused
  /\ interval = Unused
  /\ samplesPerBit = Unused
  /\ threshold = Unused
  /\ decoded = Unused
  /\ spOut = Unused
  /\ fnOut = Unused
  /\ connected = Unused
  /\ listeners = Unused
  /\ published = Unused
  /\ discovered = Unused
  /\ log = Unused
  /\ dir = Unused
  /\ results = Unused
  /\ outcome = Unused

CallParse ==
  /\ op = "init"
  /\ op' = "parse"
  /\ parsed' = Parse(frame)
  /\ UNCHANGED <<flags, minLen, intervals, buffer, iq, fields, frame, phases,
                 diffs, interval, samplesPerBit, threshold, decoded, spOut,
                 fnOut, connected, listeners, published, discovered, log, dir,
                 results, outcome>>

NextParse == CallParse

SpecParse == InitParse /\ [][NextParse]_vars

\* the value of one hexadecimal digit character
HexDigitValue(c) == (CHOOSE k \in 1..16 : HexDigits[k] = c) - 1

RECURSIVE HexValue(_)
\* the value of a string of hexadecimal digits
HexValue(h) ==
  IF Len(h) = 0 THEN 0
  ELSE 16 * HexValue(SubSeq(h, 1, Len(h) - 1)) + HexDigitValue(h[Len(h)])

\* C4: parse recovers the fields of a 64-character frame: sync is the 16 sync
\* bits, deviceId is '0x' and exactly 5 hex digits whose value is the id,
\* command is OPEN for 001, CLOSE for 010 and UNKNOWN otherwise, battery is OK
\* for 1 and LOW for 0; the preamble has no influence.
C4_RoundTrip ==
  op = "parse" =>
    /\ Len(frame) = 64
    /\ parsed.sync = ToBits(fields.sync, 16)
    /\ Len(parsed.deviceId) = 7
    /\ SubSeq(parsed.deviceId, 1, 2) = <<"0", "x">>
    /\ \A k \in 3..7 : parsed.deviceId[k] \in Range(HexDigits)
    /\ HexValue(SubSeq(parsed.deviceId, 3, 7)) = fields.id
    /\ parsed.command = (CASE fields.cmd = 1 -> "OPEN"
                           [] fields.cmd = 2 -> "CLOSE"
                           [] OTHER -> "UNKNOWN")
    /\ parsed.battery = (IF fields.bat = 1 THEN "OK" ELSE "LOW")
    /\ fields.id = 1 => parsed.deviceId = <<"0", "x", "0", "0", "0", "0", "1">>

C4_Witness ==
  /\ op = "parse"
  /\ fields = [pre |-> 11184810, sync |-> SyncValue, id |-> 1, cmd |-> 1, bat |-> 1]
  /\ parsed = [sync |-> SYNC_WORD, deviceId |-> <<"0", "x", "0", "0", "0", "0", "1">>,
               command |-> "OPEN", battery |-> "OK"]

----------------------------------------------------------------------------
(* Whole captures: extractSequences and extractUnique64BitSequences on     *)
(* captures of up to two transmissions.  A transmission carries a frame,   *)
(* or a frame cut short or extended by one bit, at w samples per bit, and  *)
(* may end with w-1 samples that fill no bit period.                       *)

FrameA == MakeFrame([pre |-> 11184810, sync |-> SyncValue, id |-> 1, cmd |-> 1, bat |-> 1])
FrameB == MakeFrame([pre |-> 11184810, sync |-> SyncValue, id |-> 1048575, cmd |-> 2, bat |-> 0])

Transmissions(w) ==
  {<<>>, Burst(FrameA, w, 0), Burst(FrameB, w, 0), Burst(FrameA, w, w - 1),
   Burst(SubSeq(FrameA, 1, ValidLen - 1), w, 0), Burst(Append(FrameB, "1"), w, 0)}

\* rest, a transmission, a gap of one sample at level mid, a transmission, rest
Capture(t1, mid, t2, tail) == Gap(1, 128) \o t1 \o Gap(1, mid) \o t2 \o Gap(tail, 128)

Captures(w) ==
  {Interleave(Capture(t1, mid, t2, tail), tail) :
     t1 \in Transmissions(w), mid \in {128, 130}, t2 \in Transmissions(w), tail \in 0..1}

NotRun == [ran |-> FALSE, intervals |-> <<>>, sequences |-> <<>>]

InitExtract ==
  /\ op = "init"
  /\ samplesPerBit \in 1..MaxSpb
  /\ buffer \in Captures(samplesPerBit)
  /\ threshold \in {POWER_THRESHOLD, 8}
  /\ minLen \in {ScaledMinSignalLength(samplesPerBit), ValidLen * samplesPerBit + 1}
  /\ spOut = NotRun
  /\ fnOut = NotRun
  /\ flags = Unused
  /\ intervals = Unused
  /\ iq = Unused
  /\ fields = Unused
  /\ frame = Unused
  /\ parsed = Unused
  /\ phases = Unused
  /\ diffs = Unused
  /\ interval = Unused
  /\ decoded = Unused
  /\ connected = Unused
  /\ listeners = Unused
  /\ published = Unused
  /\ discovered = Unused
  /\ log = Unused
  /\ dir = Unused
  /\ results = Unused
  /\ outcome = Unused

CallExtractSequences ==
  /\ ~spOut.ran
  /\ op' = "extractSequences"
  /\ spOut' = ExtractSequencesRun(buffer, threshold, minLen, samplesPerBit)
  /\ UNCHANGED <<flags, minLen, intervals, buffer, iq, fields, frame, parsed,
                 phases, diffs, interval, samplesPerBit, threshold, decoded,
                 fnOut, connected, listeners, published, discovered, log, dir,
                 results, outcome>>

CallExtractUnique64BitSequences ==
  /\ ~fnOut.ran
  /\ op' = "extractUnique64BitSequences"
  /\ fnOut' = ExtractUnique64BitSequencesRun(buffer, threshold, minLen, samplesPerBit)
  /\ UNCHANGED <<flags, minLen, intervals, buffer, iq, fields, frame, parsed,
                 phases, diffs, interval, samplesPerBit, threshold, decoded,
                 spOut, connected, listeners, published, discovered, log, dir,
                 results, outcome>>

NextExtract == CallExtractSequences \/ CallExtractUnique64BitSequences

SpecExtract == InitExtract /\ [][NextExtract]_vars

\* the phase differences of the capture in buffer
CaptureDiffs == ComputeDiffs(ComputePhases(Normalize(ReadIq(buffer))))

NoDuplicates(s) == \A j, k \in 1..Len(s) : s[j] = s[k] => j = k

UniqueFrames(out) ==
  /\ NoDuplicates(out.sequences)
  /\ \A x \in Range(out.sequences) : Len(x) = 64
  /\ out.intervals = <<>> => out.sequences = <<>>
  /\ out.intervals # <<>> =>
       LET d == CaptureDiffs
       IN  Range(out.sequences) =
             {x \in {DecodeBits(d, iv, samplesPerBit) : iv \in Range(out.intervals)} :
                Len(x) = 64}

\* C6: the list extractSequences (and extractUnique64BitSequences) returns has
\* no duplicates and only strings of length 64; a string is in it exactly when
\* some detected interval decodes to it with 64 symbols; two identical
\* transmissions give one string, and no interval gives the empty list.
C6_UniqueFrames ==
  /\ spOut.ran => UniqueFrames(spOut)
  /\ fnOut.ran => UniqueFrames(fnOut)
  /\ (spOut.ran /\ threshold = POWER_THRESHOLD /\ minLen = ScaledMinSignalLength(samplesPerBit)
        /\ buffer = Interleave(Capture(Burst(FrameA, samplesPerBit, 0), 128,
                                       Burst(FrameA, samplesPerBit, 0), 1), 1))
       => spOut.sequences = <<FrameA>>

C6_Witness ==
  /\ spOut.ran
  /\ samplesPerBit = 2
  /\ threshold = POWER_THRESHOLD
  /\ Len(spOut.intervals) = 2
  /\ buffer = Interleave(Capture(Burst(FrameA, 2, 0), 128, Burst(FrameA, 2, 1), 0), 0)
  /\ spOut.sequences = <<FrameA>>

\* C10: extractSequences and extractUnique64BitSequences find the same
\* intervals and return the same list of bit strings in the same order.
C10_SameResult ==
  (spOut.ran /\ fnOut.ran) =>
    /\ spOut.intervals = fnOut.intervals
    /\ spOut.sequences = fnOut.sequences

C10_Witness ==
  /\ spOut.ran
  /\ fnOut.ran
  /\ spOut.sequences = <<FrameB, FrameA>>
  /\ fnOut.sequences = <<FrameB, FrameA>>
  /\ Len(buffer) % 2 = 1

----------------------------------------------------------------------------
(* The watcher: chokidar's 'add' callback (src/index.js:249-255) calling   *)
(* processFile, and the MQTT client's connection events.  processFile      *)
(* passes POWER_THRESHOLD, MIN_SIGNAL_LENGTH and SAMPLES_PER_BIT; the      *)
(* watched captures are scaled to ScaledSamplesPerBit samples per bit and  *)
(* the same ratio of minimum length to bit period.                         *)

FrameA2 == MakeFrame([pre |-> 11184810, sync |-> SyncValue, id |-> 1, cmd |-> 2, bat |-> 0])
FrameX == MakeFrame([pre |-> 11184810, sync |-> SyncValue + 1, id |-> 1, cmd |-> 1, bat |-> 1])
FrameY == MakeFrame([pre |-> 0, sync |-> 0, id |-> 74565, cmd |-> 7, bat |-> 1])

WatchedCapture(f1, f2) ==
  LET t(f) == IF f = <<>> THEN <<>> ELSE Burst(f, ScaledSamplesPerBit, 0)
  IN  Interleave(Capture(t(f1), 128, t(f2), 1), 0)

WatchedFiles ==
  {[ext |-> ".cu8", kind |-> "file", bytes |-> WatchedCapture(p[1], p[2])] :
     p \in {<<FrameA, <<>>>>, <<FrameA2, <<>>>>, <<FrameB, <<>>>>, <<FrameX, <<>>>>,
            <<FrameY, FrameA>>, <<FrameA, FrameA2>>, <<FrameA, FrameA>>,
            <<FrameX, FrameB>>, <<<<>>, <<>>>>}}
    \cup {[ext |-> ".CU8", kind |-> "file", bytes |-> WatchedCapture(FrameB, FrameA)],
          [ext |-> ".txt", kind |-> "file", bytes |-> WatchedCapture(FrameA, <<>>)],
          [ext |-> ".cu8", kind |-> "unreadable", bytes |-> <<>>]}

\* path.extname(file).toLowerCase()
ExtLowerCase(ext) == IF ext = ".CU8" THEN ".cu8" ELSE ext

\* processFile's call of extractSequences (lines 230-235), tabulated per file
WatchedFrames ==
  [f \in {g \in WatchedFiles : g.kind = "file"} |->
     ExtractSequences(f.bytes, POWER_THRESHOLD, ScaledMinSignalLength(ScaledSamplesPerBit),
                      ScaledSamplesPerBit)]

ClientState ==
  [connected |-> connected, listeners |-> listeners, published |-> published,
   discovered |-> discovered, log |-> log]

InitWatch ==
  /\ op = "init"
  /\ connected = FALSE
  /\ listeners = <<>>
  /\ published = <<>>
  /\ discovered = {}
  /\ log = <<>>
  /\ outcome = "none"
  /\ flags = Unused
  /\ minLen = Unused
  /\ intervals = Unused
  /\ buffer = Unused
  /\ iq = Unused
  /\ fields = Unused
  /\ frame = Unused
  /\ parsed = Unused
  /\ phases = Unused
  /\ diffs = Unused
  /\ interval = Unused
  /\ samplesPerBit = Unused
  /\ threshold = Unused
  /\ decoded = Unused
  /\ spOut = Unused
  /\ fnOut = Unused
  /\ dir = Unused
  /\ results = Unused

\* the 'add' callback for a file that is not a .cu8 capture
AddIgnored(f) ==
  /\ ExtLowerCase(f.ext) # ".cu8"
  /\ op' = "add"
  /\ outcome' = "ignored"
  /\ UNCHANGED <<flags, minLen, intervals, buffer, iq, fields, frame, parsed,
                 phases, diffs, interval, samplesPerBit, threshold, decoded,
                 spOut, fnOut, connected, listeners, published, discovered,
                 log, dir, results>>

\* readFileSync throws in extractSequences: the exception leaves processFile
\* and the callback before any frame is handled
AddUnreadable(f) ==
  /\ ExtLowerCase(f.ext) = ".cu8"
  /\ f.kind = "unreadable"
  /\ op' = "add"
  /\ outcome' = "uncaught"
  /\ UNCHANGED <<flags, minLen, intervals, buffer, iq, fields, frame, parsed,
                 phases, diffs, interval, samplesPerBit, threshold, decoded,
                 spOut, fnOut, connected, listeners, published, discovered,
                 log, dir, results>>

AddProcessFile(f) ==
  /\ ExtLowerCase(f.ext) = ".cu8"
  /\ f.kind = "file"
  /\ Len(log) < MaxFrames
  /\ LET frames == WatchedFrames[f]
         st == HandleFrames(ClientState, frames, Len(frames))
     IN  /\ listeners' = st.listeners
         /\ published' = st.published
         /\ discovered' = st.discovered
         /\ log' = st.log
  /\ op' = "add"
  /\ outcome' = "processed"
  /\ UNCHANGED <<flags, minLen, intervals, buffer, iq, fields, frame, parsed,
                 phases, diffs, interval, samplesPerBit, threshold, decoded,
                 spOut, fnOut, connected, dir, results>>

\* the client's 'connect' event: connected is true and every callback
\* registered with once('connect') runs, in the order of registration
Connect ==
  /\ ~connected
  /\ connected' = TRUE
  /\ published' = published \o listeners
  /\ listeners' = <<>>
  /\ op' = "connect"
  /\ UNCHANGED <<flags, minLen, intervals, buffer, iq, fields, frame, parsed,
                 phases, diffs, interval, samplesPerBit, threshold, decoded,
                 spOut, fnOut, discovered, log, dir, results, outcome>>

\* the connection is lost
Disconnect ==
  /\ connected
  /\ connected' = FALSE
  /\ op' = "close"
  /\ UNCHANGED <<flags, minLen, intervals, buffer, iq, fields, frame, parsed,
                 phases, diffs, interval, samplesPerBit, threshold, decoded,
                 spOut, fnOut, listeners, published, discovered, log, dir,
                 results, outcome>>

NextWatch ==
  \/ \E f \in WatchedFiles : AddIgnored(f)
  \/ \E f \in WatchedFiles : AddUnreadable(f)
  \/ \E f \in WatchedFiles : AddProcessFile(f)
  \/ Connect
  \/ Disconnect

SpecWatch == InitWatch /\ [][NextWatch]_vars

\* every message send was called with, in the order of the calls: those
\* published, then those waiting for 'connect'
Sent == published \o listeners

\* the messages send was called with while frame k of the log was handled
SentFor(k) == SubSeq(Sent, log[k].sentBefore + 1, log[k].sentAfter)

\* the log accounts for every send call and every change of discovered
LogIsComplete ==
  /\ \A k \in 1..Len(log) :
       /\ log[k].sentBefore = (IF k = 1 THEN 0 ELSE log[k - 1].sentAfter)
       /\ log[k].discBefore = (IF k = 1 THEN {} ELSE log[k - 1].discAfter)
  /\ Len(Sent) = (IF log = <<>> THEN 0 ELSE log[Len(log)].sentAfter)
  /\ discovered = (IF log = <<>> THEN {} ELSE log[Len(log)].discAfter)

IsState(m) == m.topic[1] = "rtl_433"
IsConfig(m) == m.topic[1] = "homeassistant"

\* C3: parse exposes the frame's 16 sync bits; a frame whose sync differs from
\* SYNC_WORD causes no send call and no change of the discovered set, and a
\* frame whose sync equals SYNC_WORD causes exactly one state message, on topic
\* rtl_433/<deviceId>.  A message sent while the client is disconnected waits
\* for 'connect'; none waits while the client is connected.
C3_SyncGate ==
  /\ LogIsComplete
  /\ connected => listeners = <<>>
  /\ \A k \in 1..Len(log) :
       LET e == log[k]
           msgs == SentFor(k)
       IN  /\ e.parsed.sync = SubSeq(e.frame, 25, 40)
           /\ e.parsed.sync # SYNC_WORD => (msgs = <<>> /\ e.discAfter = e.discBefore)
           /\ e.parsed.sync = SYNC_WORD =>
                /\ Cardinality({j \in 1..Len(msgs) : IsState(msgs[j])}) = 1
                /\ \E j \in 1..Len(msgs) : msgs[j].topic = <<"rtl_433", e.parsed.deviceId>>

C3_Witness ==
  /\ Len(log) = 2
  /\ log[1].frame = FrameX
  /\ log[2].frame = FrameB
  /\ SentFor(1) = <<>>
  /\ Len(SentFor(2)) = 3

Entities == {"contact", "battery_low"}

\* C9: the two discovery messages of a device are sent at most once, for its
\* first frame with a valid sync and before its state message; discovered only
\* grows and holds exactly the devices whose discovery was sent; a later valid
\* frame of a discovered device sends one state message and nothing else.
C9_DiscoveryOnce ==
  /\ LogIsComplete
  /\ \A k \in 1..Len(log) : log[k].discBefore \subseteq log[k].discAfter
  /\ discovered = {Sent[j].topic[3] : j \in {i \in 1..Len(Sent) : IsConfig(Sent[i])}}
  /\ \A id \in discovered, en \in Entities :
       Cardinality({j \in 1..Len(Sent) : Sent[j].topic = ConfigTopic(id, en)}) = 1
  /\ \A j \in 1..Len(Sent) :
       IsState(Sent[j]) =>
         \A en \in Entities :
           \E i \in 1..(j - 1) : Sent[i].topic = ConfigTopic(Sent[j].topic[2], en)
  /\ \A j \in 1..Len(published) :
       IsState(published[j]) =>
         \A en \in Entities :
           \E i \in 1..(j - 1) : published[i].topic = ConfigTopic(published[j].topic[2], en)
  /\ \A k \in 1..Len(log) :
       LET e == log[k]
           id == e.parsed.deviceId
           msgs == SentFor(k)
       IN  e.parsed.sync = SYNC_WORD =>
             IF id \in e.discBefore
               THEN Len(msgs) = 1 /\ msgs[1].topic = StateTopic(id)
               ELSE /\ Len(msgs) = 3
                    /\ msgs[1].topic = ConfigTopic(id, "contact")
                    /\ msgs[2].topic = ConfigTopic(id, "battery_low")
                    /\ msgs[3].topic = StateTopic(id)

C9_Witness ==
  /\ Len(log) = 3
  /\ log[1].frame = FrameA
  /\ log[2].frame = FrameA
  /\ log[3].frame = FrameA2
  /\ Len(SentFor(1)) = 3
  /\ Len(SentFor(3)) = 1
  /\ Len(published) = 3
  /\ Len(listeners) = 2
  /\ discovered = {log[1].parsed.deviceId}

----------------------------------------------------------------------------
(* Batch mode: processDirectory on every listing of up to MaxDirLen        *)
(* entries, each a capture file, a sub-directory or a file that cannot be  *)
(* read.  The call at src/index.js:385 passes 5, 35000 and 635; the listed *)
(* captures are scaled like the watched ones.                              *)

FileNames == <<"a.cu8", "b.cu8", "c.cu8", "d.cu8", "e.cu8">>

EntryKinds ==
  {[kind |-> "file", bytes |-> WatchedCapture(FrameA, <<>>)],
   [kind |-> "file", bytes |-> WatchedCapture(<<>>, <<>>)],
   [kind |-> "dir", bytes |-> <<>>],
   [kind |-> "unreadable", bytes |-> <<>>]}

Listings ==
  UNION {{[k \in 1..n |-> [name |-> FileNames[k], kind |-> c[k].kind, bytes |-> c[k].bytes]] :
            c \in [1..n -> EntryKinds]} : n \in 0..MaxDirLen}

InitBatch ==
  /\ op = "init"
  /\ dir \in Listings
  /\ results = <<>>
  /\ outcome = "none"
  /\ flags = Unused
  /\ minLen = Unused
  /\ intervals = Unused
  /\ buffer = Unused
  /\ iq = Unused
  /\ fields = Unused
  /\ frame = Unused
  /\ parsed = Unused
  /\ phases = Unused
  /\ diffs = Unused
  /\ interval = Unused
  /\ samplesPerBit = Unused
  /\ threshold = Unused
  /\ decoded = Unused
  /\ spOut = Unused
  /\ fnOut = Unused
  /\ connected = Unused
  /\ listeners = Unused
  /\ published = Unused
  /\ discovered = Unused
  /\ log = Unused

\* results holds the object as the function left it; when the function threw,
\* the caller receives nothing
CallProcessDirectory ==
  /\ op = "init"
  /\ op' = "processDirectory"
  /\ LET r == ProcessDirectory(dir, POWER_THRESHOLD,
                               ScaledMinSignalLength(ScaledSamplesPerBit),
                               ScaledSamplesPerBit)
     IN  /\ results' = r.results
         /\ outcome' = IF r.threw THEN "threw" ELSE "returned"
  /\ UNCHANGED <<flags, minLen, intervals, buffer, iq, fields, frame, parsed,
                 phases, diffs, interval, samplesPerBit, threshold, decoded,
                 spOut, fnOut, connected, listeners, published, discovered,
                 log, dir>>

NextBatch == CallProcessDirectory

SpecBatch == InitBatch /\ [][NextBatch]_vars

\* C2: a file that cannot be read is fatal for that file only: every readable
\* file of the listing, also one listed after the failing file, is decoded and
\* its result is produced.
C2_BatchSurvives ==
  op = "processDirectory" =>
    \A k \in 1..Len(dir) :
      dir[k].kind = "file" =>
        /\ dir[k].name \in DOMAIN results
        /\ results[dir[k].name] =
             ExtractUnique64BitSequences(dir[k].bytes, POWER_THRESHOLD,
                                         ScaledMinSignalLength(ScaledSamplesPerBit),
                                         ScaledSamplesPerBit)

====
